---- MODULE Spec2Model ----
(***************************************************************************)
(* A model of fst.py: the weighted finite-state transducer store (FST),    *)
(* its weight estimators (train_joint, normalize_joint, normalize_cond),   *)
(* the two composition routines (compose_left, compose_right) and the      *)
(* n-gram builder (make_ngram).                                            *)
(*                                                                         *)
(* Python dicts keep their keys in insertion order, and the code iterates  *)
(* them, so every index is modelled as a sequence of entries [k, v] with   *)
(* distinct keys.  The two-level dicts transitions_from[q][t] etc. are     *)
(* flattened to one level keyed by t: the outer key is always a field of t *)
(* itself, so the inner dict of q is the sub-sequence of entries whose key *)
(* has that field.  Weights are exact non-negative rationals <<n, d>> in   *)
(* lowest terms (Python's int/float arithmetic without rounding).          *)
(***************************************************************************)
EXTENDS Integers, Sequences, FiniteSets, TLC

VARIABLES m1, m2, last, out, nEst

vars == <<m1, m2, last, out, nEst>>

----------------------------------------------------------------------------
(* Bounds of the model *)

\* largest weight an add_transition / reweight_transition call may leave
MaxWt == 2
\* number of estimator calls (train_joint, normalize_*) in one behaviour
MaxEst == 1
\* number of training sequences in a corpus, and symbols in a sequence
MaxLines == 2
MaxLen == 2
\* largest n of make_ngram
MaxN == 2
\* number of construction calls that build an automaton handed to an estimator
MaxOps == 2
\* number of construction calls that build an operand of a composition
MaxComposeOps == 2

----------------------------------------------------------------------------
(* Constants of the program *)

\* the source's EPSILON is the one-character string U+03B5; the model writes it
\* in ASCII, a string that is no symbol of any input below
EPSILON == "<eps>"
STOP == "</s>"
\* Python's None (start and accept of a fresh FST)
None == -1

----------------------------------------------------------------------------
(* Exact arithmetic on weights *)

RECURSIVE GCD(_, _)
GCD(a, b) == IF b = 0 THEN a ELSE GCD(b, a % b)

Rat(n, d) == LET g == GCD(n, d) IN <<n \div g, d \div g>>
Int2Rat(n) == <<n, 1>>
Zero == <<0, 1>>
One == <<1, 1>>
RAdd(x, y) == Rat(x[1] * y[2] + y[1] * x[2], x[2] * y[2])
RSub(x, y) == Rat(x[1] * y[2] - y[1] * x[2], x[2] * y[2])
RMul(x, y) == Rat(x[1] * y[1], x[2] * y[2])
RDiv(x, y) == Rat(x[1] * y[2], x[2] * y[1])
RLeq(x, y) == x[1] * y[2] <= y[1] * x[2]

RECURSIVE RSum(_)
RSum(s) == IF s = <<>> THEN Zero ELSE RAdd(Head(s), RSum(Tail(s)))

----------------------------------------------------------------------------
(* Insertion-ordered dicts: sequences of entries [k |-> key, v |-> value] *)

Keys(d) == {d[i].k : i \in DOMAIN d}
Has(d, k) == \E i \in DOMAIN d : d[i].k = k
Get(d, k) == d[CHOOSE i \in DOMAIN d : d[i].k = k].v
\* d[k] of a defaultdict(float), read only
GetFloat(d, k) == IF Has(d, k) THEN Get(d, k) ELSE Zero
\* d[k] = v: an existing key keeps its place, a new key goes last
Put(d, k, v) ==
    IF Has(d, k)
    THEN [i \in DOMAIN d |-> IF d[i].k = k THEN [k |-> k, v |-> v] ELSE d[i]]
    ELSE Append(d, [k |-> k, v |-> v])
Values(d) == [i \in DOMAIN d |-> d[i].v]

----------------------------------------------------------------------------
(* Transition and FST *)

Transition(q, a, r) == [q |-> q, a |-> a, r |-> r]

FST == [states |-> {},
        transitions_from |-> <<>>,
        transitions_to |-> <<>>,
        transitions_on_input |-> <<>>,
        transitions_on_output |-> <<>>,
        start |-> None,
        accept |-> None,
        input_alphabet |-> {},
        output_alphabet |-> {}]

add_state(f, q) == [f EXCEPT !.states = @ \cup {q}]

set_start(f, q) == [add_state(f, q) EXCEPT !.start = q]

set_accept(f, q) == [add_state(f, q) EXCEPT !.accept = q]

\* add_transition that overwrites the weight instead of incrementing it
add_transition_overwrite(f, t, wt) ==
    LET g == add_state(add_state(f, t.q), t.r)
    IN [g EXCEPT
          !.input_alphabet = @ \cup {t.a[1]},
          !.output_alphabet = @ \cup {t.a[2]},
          !.transitions_from = Put(@, t, wt),
          !.transitions_to = Put(@, t, wt),
          !.transitions_on_input = Put(@, t, wt),
          !.transitions_on_output = Put(@, t, wt)]

add_transition(f, t, wt) ==
    LET g == add_state(add_state(f, t.q), t.r)
    IN [g EXCEPT
          !.input_alphabet = @ \cup {t.a[1]},
          !.output_alphabet = @ \cup {t.a[2]},
          !.transitions_from = Put(@, t, RAdd(GetFloat(@, t), wt)),
          !.transitions_to = Put(@, t, RAdd(GetFloat(@, t), wt)),
          !.transitions_on_input = Put(@, t, RAdd(GetFloat(@, t), wt)),
          !.transitions_on_output = Put(@, t, RAdd(GetFloat(@, t), wt))]

\* reweight_transition that forgets the index by output symbol
reweight_transition_three(f, t, wt) ==
    [f EXCEPT
       !.transitions_from = Put(@, t, wt),
       !.transitions_to = Put(@, t, wt),
       !.transitions_on_input = Put(@, t, wt)]

reweight_transition(f, t, wt) ==
    [f EXCEPT
       !.transitions_from = Put(@, t, wt),
       !.transitions_to = Put(@, t, wt),
       !.transitions_on_input = Put(@, t, wt),
       !.transitions_on_output = Put(@, t, wt)]

\* a placeholder where a call has no transition (Python's None)
NoTransition == Transition(None, <<"", "">>, None)

\* self.transitions_from[q], in iteration order
From(f, q) == SelectSeq(f.transitions_from, LAMBDA e : e.k.q = q)

----------------------------------------------------------------------------
(* train_joint *)

\* the entries of transitions_from[q] that the inner scan would accept for a
Matches(f, q, a) == SelectSeq(From(f, q), LAMBDA e : e.k.a[1] = a)

\* collections.Counter(): a missing key counts 0
Counter(f) == [t \in Keys(f.transitions_from) |-> 0]

\* the walk of one line (symbols syms still to read, at state q);
\* ok = FALSE is the for/else branch that raises
RECURSIVE WalkLine(_, _, _, _)
WalkLine(f, q, syms, c) ==
    IF syms = <<>> THEN [ok |-> TRUE, c |-> c]
    ELSE LET ms == Matches(f, q, Head(syms))
         IN IF ms = <<>> THEN [ok |-> FALSE, c |-> c]
            ELSE LET t == ms[1].k
                 IN WalkLine(f, t.r, Tail(syms), [c EXCEPT ![t] = @ + 1])

\* the walks of all lines, in order; stops at the first line that raises
RECURSIVE WalkData(_, _, _)
WalkData(f, data, c) ==
    IF data = <<>> THEN [ok |-> TRUE, c |-> c]
    ELSE LET w == WalkLine(f, f.start, Append(Head(data), STOP), c)
         IN IF w.ok THEN WalkData(f, Tail(data), w.c) ELSE w

\* z = sum(self.transitions_from[q].values())
Z(f, q) == RSum(Values(From(f, q)))

\* a sequence of reweight_transition calls
RECURSIVE ApplyReweights(_, _)
ApplyReweights(f, ups) ==
    IF ups = <<>> THEN f
    ELSE ApplyReweights(reweight_transition(f, Head(ups).k, Head(ups).v), Tail(ups))

\* states at which c[t]/z divides by zero
ZeroStates(f) == {q \in f.states : From(f, q) # <<>> /\ Z(f, q) = Zero}

\* the second loop of train_joint over the states in P
Reestimate(f, P, c) ==
    LET es == SelectSeq(f.transitions_from, LAMBDA e : e.k.q \in P)
    IN ApplyReweights(f, [i \in DOMAIN es |->
           [k |-> es[i].k, v |-> RDiv(Int2Rat(c[es[i].k]), Z(f, es[i].k.q))]])

\* train_joint that re-estimates from the counts so far before it raises
train_joint_partial(f, data) ==
    LET w == WalkData(f, data, Counter(f))
    IN IF ~w.ok
       THEN {[m |-> Reestimate(f, f.states \ ZeroStates(f), w.c),
              err |-> "ValueError", c |-> w.c]}
       ELSE {[m |-> Reestimate(f, f.states \ ZeroStates(f), w.c),
              err |-> IF ZeroStates(f) = {} THEN "" ELSE "ZeroDivisionError",
              c |-> w.c]}

\* The outcomes of train_joint(data): the automaton left behind, the exception
\* raised ("" for none) and the counter c.  self.states is a set, iterated in
\* an order the program does not fix, so when some state divides by zero the
\* states re-estimated before it are any set P of the others.
train_joint(f, data) ==
    LET w == WalkData(f, data, Counter(f))
    IN IF ~w.ok THEN {[m |-> f, err |-> "ValueError", c |-> w.c]}
       ELSE IF ZeroStates(f) = {}
       THEN {[m |-> Reestimate(f, f.states, w.c), err |-> "", c |-> w.c]}
       ELSE {[m |-> Reestimate(f, P, w.c), err |-> "ZeroDivisionError", c |-> w.c] :
                P \in SUBSET (f.states \ ZeroStates(f))}

----------------------------------------------------------------------------
(* normalize_joint, normalize_cond *)

normalize_joint(f) ==
    LET es == SelectSeq(f.transitions_from,
                        LAMBDA e : e.k.q \in f.states /\ e.v # Zero)
    IN ApplyReweights(f, [i \in DOMAIN es |->
           [k |-> es[i].k, v |-> RDiv(es[i].v, Z(f, es[i].k.q))]])

\* s[a] taken over all the outgoing transitions, whatever their input symbol
CondS_all(f, q, a, add) ==
    LET es == From(f, q) IN RSum([i \in DOMAIN es |-> RAdd(es[i].v, add)])

\* s[a] and z of normalize_cond at state q
CondS(f, q, a, add) ==
    LET es == SelectSeq(From(f, q), LAMBDA e : e.k.a[1] = a)
    IN RSum([i \in DOMAIN es |-> RAdd(es[i].v, add)])
CondZ(f, q, add) ==
    LET es == From(f, q) IN RSum([i \in DOMAIN es |-> RAdd(es[i].v, add)])

CondWeight(f, e, add) ==
    LET q == e.k.q
        wa == RAdd(e.v, add)
    IN IF e.k.a[1] = EPSILON
       THEN RDiv(wa, CondZ(f, q, add))
       ELSE RMul(RDiv(wa, CondS(f, q, e.k.a[1], add)),
                 RSub(One, RDiv(CondS(f, q, EPSILON, add), CondZ(f, q, add))))

normalize_cond(f, add) ==
    LET es == SelectSeq(f.transitions_from,
                        LAMBDA e : e.k.q \in f.states /\ RAdd(e.v, add) # Zero)
    IN ApplyReweights(f, [i \in DOMAIN es |->
           [k |-> es[i].k, v |-> CondWeight(f, es[i], add)]])

----------------------------------------------------------------------------
(* compose_left, compose_right *)

\* a sequence without its repeated elements, first occurrences kept
RECURSIVE Dedup(_)
Dedup(s) ==
    IF s = <<>> THEN <<>>
    ELSE <<Head(s)>> \o Dedup(SelectSeq(Tail(s), LAMBDA x : x # Head(s)))

RECURSIVE Flatten(_)
Flatten(ss) == IF ss = <<>> THEN <<>> ELSE Head(ss) \o Flatten(Tail(ss))

\* The iteration of a set.  Its order is not fixed by the program; the
\* transitions a composition emits for different elements are distinct, so
\* the order changes neither a weight nor which emission of a transition is
\* the first.
RECURSIVE SetToSeq(_)
SetToSeq(S) ==
    IF S = {} THEN <<>>
    ELSE LET x == CHOOSE y \in S : TRUE IN <<x>> \o SetToSeq(S \ {x})

\* "for a in d: for t, wt in d[a].items()" over the index by input symbol
\* (side = 1) or by output symbol (side = 2): outer keys in insertion order
ItemsBySymbol(d, side) ==
    LET ks == Dedup([i \in DOMAIN d |-> d[i].k.a[side]])
    IN Flatten([j \in DOMAIN ks |->
                   SelectSeq(d, LAMBDA e : e.k.a[side] = ks[j])])

\* d.get(a, {}).items()
ItemsOn(d, side, a) == SelectSeq(d, LAMBDA e : e.k.a[side] = a)

\* the three kinds of composed transition, with weight and composed_from
\* (NoTransition stands for None)
Matched(e1, e2) ==
    [t |-> Transition(<<e1.k.q, e2.k.q>>, <<e1.k.a[1], e2.k.a[2]>>,
                      <<e1.k.r, e2.k.r>>),
     wt |-> RMul(e1.v, e2.v),
     composed_from |-> <<e1.k, e2.k>>]
Deleted(e1, q2) ==
    [t |-> Transition(<<e1.k.q, q2>>, <<e1.k.a[1], EPSILON>>, <<e1.k.r, q2>>),
     wt |-> e1.v,
     composed_from |-> <<e1.k, NoTransition>>]
Inserted(q1, e2) ==
    [t |-> Transition(<<q1, e2.k.q>>, <<EPSILON, e2.k.a[2]>>, <<q1, e2.k.r>>),
     wt |-> e2.v,
     composed_from |-> <<NoTransition, e2.k>>]

\* m.add_transition(t, wt) for each emission in turn.  composed_from is an
\* attribute of the Transition object handed in; a dict keeps the key object
\* it first stored, so the attribute of a later equal transition is lost.
RECURSIVE AddEmitted(_, _)
AddEmitted(r, es) ==
    IF es = <<>> THEN r
    ELSE LET e == Head(es)
         IN AddEmitted(
               [m |-> add_transition(r.m, e.t, e.wt),
                composed_from |->
                   IF Has(r.composed_from, e.t) THEN r.composed_from
                   ELSE Append(r.composed_from,
                               [k |-> e.t, v |-> e.composed_from])],
               Tail(es))

Composed(a, b, emitted, m1_deletes, m2_inserts) ==
    LET r == AddEmitted([m |-> set_start(FST, <<a.start, b.start>>),
                         composed_from |-> <<>>], emitted)
    IN IF m1_deletes /\ m2_inserts
       THEN [called |-> TRUE, err |-> "ValueError", m |-> FST,
             composed_from |-> <<>>]
       ELSE [called |-> TRUE, err |-> "",
             m |-> set_accept(r.m, <<a.accept, b.accept>>),
             composed_from |-> r.composed_from]

compose_left(a, b) ==
    LET ts1 == ItemsBySymbol(a.transitions_on_input, 1)
        ins == ItemsOn(b.transitions_on_input, 1, EPSILON)
        qs1 == SetToSeq(a.states)
        qs2 == SetToSeq(b.states)
        first == Flatten([i \in DOMAIN ts1 |->
                    IF ts1[i].k.a[2] # EPSILON
                    THEN LET ts2 == ItemsOn(b.transitions_on_input, 1, ts1[i].k.a[2])
                         IN [j \in DOMAIN ts2 |-> Matched(ts1[i], ts2[j])]
                    ELSE [j \in DOMAIN qs2 |-> Deleted(ts1[i], qs2[j])]])
        second == Flatten([i \in DOMAIN qs1 |->
                    [j \in DOMAIN ins |-> Inserted(qs1[i], ins[j])]])
    IN Composed(a, b, first \o second,
                \E i \in DOMAIN ts1 : ts1[i].k.a[2] = EPSILON,
                qs1 # <<>> /\ ins # <<>>)

compose_right(a, b) ==
    LET ts2 == ItemsBySymbol(b.transitions_on_output, 2)
        dels == ItemsOn(a.transitions_on_output, 2, EPSILON)
        qs1 == SetToSeq(a.states)
        qs2 == SetToSeq(b.states)
        first == Flatten([i \in DOMAIN ts2 |->
                    IF ts2[i].k.a[1] # EPSILON
                    THEN LET ts1 == ItemsOn(a.transitions_on_output, 2, ts2[i].k.a[1])
                         IN [j \in DOMAIN ts1 |-> Matched(ts1[j], ts2[i])]
                    ELSE [j \in DOMAIN qs1 |-> Inserted(qs1[j], ts2[i])]])
        second == Flatten([i \in DOMAIN qs2 |->
                    [j \in DOMAIN dels |-> Deleted(dels[j], qs2[i])]])
    IN Composed(a, b, first \o second,
                qs2 # <<>> /\ dels # <<>>,
                \E i \in DOMAIN ts2 : ts2[i].k.a[1] = EPSILON)

----------------------------------------------------------------------------
(* make_ngram.  Its states are Python tuples of symbols and the str STOP;  *)
(* a tuple never equals a str, which the two record shapes keep.           *)

Tuple(s) == [tuple |-> s]
Str(s) == [str |-> s]

\* ("<s>",) * (n-1)
StartState(n) == Tuple([i \in 1..(n - 1) |-> "<s>"])

\* q[1:] + (a,); the slice of an empty tuple is empty
Shift(q, a) == Tuple(Append(IF q.tuple = <<>> THEN <<>> ELSE Tail(q.tuple), a))

\* the skeleton of one line that stores each transition with weight 1 however
\* often the corpus takes it
RECURSIVE NgramLine_once(_, _, _)
NgramLine_once(f, q, line) ==
    IF line = <<>>
    THEN add_transition_overwrite(f, Transition(q, <<STOP, STOP>>, Str(STOP)), One)
    ELSE LET a == Head(line)
             q_next == Shift(q, a)
         IN NgramLine_once(
                add_transition_overwrite(f, Transition(q, <<a, a>>, q_next), One),
                q_next, Tail(line))

\* the body of "for line in data", from state q on
RECURSIVE NgramLine(_, _, _)
NgramLine(f, q, line) ==
    IF line = <<>>
    THEN add_transition(f, Transition(q, <<STOP, STOP>>, Str(STOP)), One)
    ELSE LET a == Head(line)
             q_next == Shift(q, a)
         IN NgramLine(add_transition(f, Transition(q, <<a, a>>, q_next), One),
                      q_next, Tail(line))

RECURSIVE NgramLines(_, _)
NgramLines(f, data) ==
    IF data = <<>> THEN f
    ELSE NgramLines(NgramLine(f, f.start, Head(data)), Tail(data))

\* the outcomes of make_ngram(data, n): those of its call of train_joint
make_ngram(data, n) ==
    train_joint(set_accept(NgramLines(set_start(FST, StartState(n)), data),
                           Str(STOP)),
                data)

----------------------------------------------------------------------------
(* Inputs of the calls *)

\* Seq(S) up to length n
SeqsUpTo(S, n) == UNION {[1..k -> S] : k \in 0..n}

Lines(syms) == SeqsUpTo(syms, MaxLen)
Corpora(syms) == SeqsUpTo(Lines(syms), MaxLines)

Weights == {Int2Rat(w) : w \in 0..MaxWt}

StoreStates == {0, 1}
StoreTrans == {Transition(0, <<"a", EPSILON>>, 1),
               Transition(1, <<STOP, STOP>>, 0)}
StoreCorpora == {<<>>, << <<>> >>, << <<"a">> >>, << <<"a">>, <<"a", "a">> >>}

----------------------------------------------------------------------------
(* The record of the last call: its name, its arguments (transition t,     *)
(* weight or add wt, corpus data, order n), the exception it raised ("" for *)
(* none), for train_joint its counter c, and for the estimators the        *)
(* automaton before the call.                                              *)

NoCall == [op |-> "", t |-> NoTransition, wt |-> Zero, data |-> <<>>, n |-> 0,
           err |-> "", c |-> <<>>, pre |-> FST]

NoResult == [called |-> FALSE, err |-> "", m |-> FST, composed_from |-> <<>>]

Init ==
    /\ m1 = FST
    /\ m2 = FST
    /\ last = NoCall
    /\ out = [left |-> NoResult, right |-> NoResult]
    /\ nEst = 0

----------------------------------------------------------------------------
(* The store: one action per public operation, on the automaton m1 *)

AddState(q) ==
    /\ m1' = add_state(m1, q)
    /\ last' = [NoCall EXCEPT !.op = "add_state"]
    /\ UNCHANGED <<m2, out, nEst>>

SetStart(q) ==
    /\ m1' = set_start(m1, q)
    /\ last' = [NoCall EXCEPT !.op = "set_start"]
    /\ UNCHANGED <<m2, out, nEst>>

SetAccept(q) ==
    /\ m1' = set_accept(m1, q)
    /\ last' = [NoCall EXCEPT !.op = "set_accept"]
    /\ UNCHANGED <<m2, out, nEst>>

AddTransition(t, wt) ==
    /\ RLeq(RAdd(GetFloat(m1.transitions_from, t), wt), Int2Rat(MaxWt))
    /\ m1' = add_transition(m1, t, wt)
    /\ last' = [NoCall EXCEPT !.op = "add_transition", !.t = t, !.wt = wt]
    /\ UNCHANGED <<m2, out, nEst>>

ReweightTransition(t, wt) ==
    /\ m1' = reweight_transition(m1, t, wt)
    /\ last' = [NoCall EXCEPT !.op = "reweight_transition", !.t = t, !.wt = wt]
    /\ UNCHANGED <<m2, out, nEst>>

TrainJoint(data) ==
    /\ nEst < MaxEst
    /\ \E o \in train_joint(m1, data) :
          /\ m1' = o.m
          /\ last' = [NoCall EXCEPT !.op = "train_joint", !.data = data,
                                    !.err = o.err, !.c = o.c, !.pre = m1]
    /\ nEst' = nEst + 1
    /\ UNCHANGED <<m2, out>>

NormalizeJoint ==
    /\ nEst < MaxEst
    /\ m1' = normalize_joint(m1)
    /\ last' = [NoCall EXCEPT !.op = "normalize_joint", !.pre = m1]
    /\ nEst' = nEst + 1
    /\ UNCHANGED <<m2, out>>

NormalizeCond(add) ==
    /\ nEst < MaxEst
    /\ m1' = normalize_cond(m1, add)
    /\ last' = [NoCall EXCEPT !.op = "normalize_cond", !.wt = add, !.pre = m1]
    /\ nEst' = nEst + 1
    /\ UNCHANGED <<m2, out>>

Next ==
    \/ \E q \in StoreStates : AddState(q)
    \/ \E q \in StoreStates : SetStart(q)
    \/ \E q \in StoreStates : SetAccept(q)
    \/ \E t \in StoreTrans, wt \in Weights : AddTransition(t, wt)
    \/ \E t \in StoreTrans, wt \in Weights : ReweightTransition(t, wt)
    \/ \E data \in StoreCorpora : TrainJoint(data)
    \/ NormalizeJoint
    \/ \E add \in {Zero, One} : NormalizeCond(add)

Spec == Init /\ [][Next]_vars

----------------------------------------------------------------------------
(* Claims about the store *)

Indices(f) == {f.transitions_from, f.transitions_to,
               f.transitions_on_input, f.transitions_on_output}
AllKeys(f) == UNION {Keys(d) : d \in Indices(f)}
Copies(d, k) == Cardinality({i \in DOMAIN d : d[i].k = k})

\* C1: a call add_transition(t, wt) leaves exactly one stored transition with
\* the identity of t in every index, its weight is the weight stored before
\* (0 if t was new) plus wt, no other weight changes, and the states and the
\* two alphabets gain exactly the endpoints and the symbols of t.  From the
\* empty automaton, by induction over the calls, the weight of a transition
\* is the sum of the deltas of the calls made with its identity.
C1_AddTransitionAccumulates ==
    [][last'.op = "add_transition" =>
          LET t == last'.t
              wt == last'.wt
          IN /\ \A d \in Indices(m1') :
                   /\ Copies(d, t) = 1
                   /\ Get(d, t) = RAdd(GetFloat(m1.transitions_from, t), wt)
                   /\ \A u \in Keys(m1.transitions_from) \ {t} :
                         GetFloat(d, u) = GetFloat(m1.transitions_from, u)
             /\ m1'.states = m1.states \cup {t.q, t.r}
             /\ m1'.input_alphabet = m1.input_alphabet \cup {t.a[1]}
             /\ m1'.output_alphabet = m1.output_alphabet \cup {t.a[2]}]_vars

\* a second addition of weight 1 to a transition stored with weight 1
C1_Witness ==
    /\ last.op = "add_transition"
    /\ last.wt = One
    /\ Copies(m1.transitions_from, last.t) = 1
    /\ Get(m1.transitions_from, last.t) = Int2Rat(2)

\* C2: both endpoints of every transition stored in an index are members of
\* the states set.
C2_EndpointsAreStates ==
    \A t \in AllKeys(m1) : t.q \in m1.states /\ t.r \in m1.states

\* C10: the four indices hold the same transitions with the same weights.
C10_IndicesAgree ==
    \A t \in AllKeys(m1) :
       \A d \in Indices(m1) :
          Has(d, t) /\ Get(d, t) = Get(m1.transitions_from, t)

\* an estimator has just rewritten the weights of a non-empty automaton
C10_Witness ==
    /\ last.op \in {"train_joint", "normalize_joint", "normalize_cond"}
    /\ AllKeys(m1) # {}
    /\ m1 # last.pre

----------------------------------------------------------------------------
(* One estimator call on an automaton with arbitrary weights.  The         *)
(* automaton is built by at most MaxOps add_transition calls, in any order *)
(* (the order is the one train_joint scans), with start state 0.           *)

EstTrans == {Transition(0, <<"a", "a">>, 0),
             Transition(0, <<"a", "b">>, 1),
             Transition(0, <<"b", "b">>, 1),
             Transition(0, <<EPSILON, "a">>, 0),
             Transition(0, <<STOP, STOP>>, 1)}
EstWeights == {Zero, One, Int2Rat(3)}
EstOps == {[t |-> t, wt |-> wt] : t \in EstTrans, wt \in EstWeights}

\* a sequence of add_transition calls
RECURSIVE AddAll(_, _)
AddAll(f, ops) ==
    IF ops = <<>> THEN f
    ELSE AddAll(add_transition(f, Head(ops).t, Head(ops).wt), Tail(ops))

InitEst ==
    /\ \E ops \in SeqsUpTo(EstOps, MaxOps) : m1 = set_start(AddAll(FST, ops), 0)
    /\ m2 = FST
    /\ last = NoCall
    /\ out = [left |-> NoResult, right |-> NoResult]
    /\ nEst = 0

NextEst ==
    /\ last.op = ""
    /\ \/ \E data \in Corpora({"a"}) : TrainJoint(data)
       \/ NormalizeJoint
       \/ \E add \in {Zero, One} : NormalizeCond(add)

SpecEst == InitEst /\ [][NextEst]_vars

\* the weights of the four indices
WeightsOf(f) == <<f.transitions_from, f.transitions_to,
                  f.transitions_on_input, f.transitions_on_output>>

\* the number of steps the walks counted out of state q
CountFrom(f, c, q) ==
    LET es == From(f, q) IN RSum([i \in DOMAIN es |-> Int2Rat(c[es[i].k])])

\* C6: after a train_joint that completed, every transition leaving a state
\* with at least one counted step has weight count(t) / (sum of the counts of
\* the transitions leaving that state).
C6_TrainedWeightIsRelativeCount ==
    (last.op = "train_joint" /\ last.err = "") =>
        \A i \in DOMAIN m1.transitions_from :
           LET e == m1.transitions_from[i]
               total == CountFrom(m1, last.c, e.k.q)
           IN total # Zero => e.v = RDiv(Int2Rat(last.c[e.k]), total)

\* a state of the automaton handed to normalize_cond whose only outgoing
\* transitions are x:x with weight 3 and y:y with weight 1
CondExample(f, q) ==
    LET es == From(f, q)
    IN /\ q \in f.states
       /\ Len(es) = 2
       /\ \E i, j \in 1..2 :
             /\ es[i].k.a[1] = es[i].k.a[2] /\ es[j].k.a[1] = es[j].k.a[2]
             /\ es[i].k.a[1] # es[j].k.a[1]
             /\ {es[i].k.a[1], es[j].k.a[1]} \cap {EPSILON} = {}
             /\ es[i].v = Int2Rat(3) /\ es[j].v = One

\* the weights normalize_cond(add=0) left on the two transitions of the example
CondExampleResult(wa, wb) ==
    (last.op = "normalize_cond" /\ last.wt = Zero) =>
        \A q \in last.pre.states :
           CondExample(last.pre, q) =>
              \A i \in DOMAIN last.pre.transitions_from :
                 LET e == last.pre.transitions_from[i]
                 IN e.k.q = q =>
                       Get(m1.transitions_from, e.k) =
                          (IF e.v = Int2Rat(3) THEN wa ELSE wb)

\* C8 as stated: the example yields 3/4 for the a:a transition and 1/4 for
\* the b:b transition.
C8_CondExampleThreeQuarters == CondExampleResult(Rat(3, 4), Rat(1, 4))

\* C8 amended: the example yields weight 1 for the a:a transition and weight 1
\* for the b:b transition (each is the only output of its input symbol).
C8_CondExampleOne == CondExampleResult(One, One)

C8_Witness ==
    /\ last.op = "normalize_cond"
    /\ last.wt = Zero
    /\ \E q \in last.pre.states : CondExample(last.pre, q)

\* C9: when the walk of train_joint meets a symbol with no matching outgoing
\* transition, the call raises ValueError and every weight in every index is
\* what it was before the call.
C9_FailedTrainingKeepsWeights ==
    (last.op = "train_joint"
       /\ ~WalkData(last.pre, last.data, Counter(last.pre)).ok) =>
        /\ last.err = "ValueError"
        /\ WeightsOf(m1) = WeightsOf(last.pre)

\* the second line fails after the first was walked and counted, on an
\* automaton whose weights a re-estimation from those counts would change
C9_Witness ==
    /\ last.op = "train_joint"
    /\ last.err = "ValueError"
    /\ Len(last.data) = 2
    /\ WalkData(last.pre, <<last.data[1]>>, Counter(last.pre)).ok
    /\ \E t \in DOMAIN last.c :
          last.c[t] > 0 /\ Get(m1.transitions_from, t) = Int2Rat(3)

----------------------------------------------------------------------------
(* make_ngram on its own corpus *)

NgramCorpora == Corpora({"a", "b"}) \ {<<>>}

MakeNgram(data, n) ==
    /\ \E o \in make_ngram(data, n) :
          /\ m1' = o.m
          /\ last' = [NoCall EXCEPT !.op = "make_ngram", !.data = data, !.n = n,
                                    !.err = o.err, !.c = o.c]
    /\ UNCHANGED <<m2, out, nEst>>

\* make_ngram builds its own automaton: one call per behaviour
NextNgram ==
    /\ last.op = ""
    /\ \E data \in NgramCorpora, n \in 1..MaxN : MakeNgram(data, n)

SpecNgram == Init /\ [][NextNgram]_vars

\* the states out of which the training walks took a transition
Trained(f, c) == {q \in f.states : CountFrom(f, c, q) # Zero}

\* C7: make_ngram does not raise "training string is not in language" on its
\* own corpus, and in the automaton it returns the weights of the transitions
\* leaving any state the training walks left sum to exactly 1.
C7_NgramSumsToOne ==
    last.op = "make_ngram" =>
        /\ last.err # "ValueError"
        /\ last.err = "" => \A q \in Trained(m1, last.c) : Z(m1, q) = One

\* a returned model with a state whose outgoing weights are proper fractions
C7_Witness ==
    /\ last.op = "make_ngram"
    /\ last.err = ""
    /\ \E q \in Trained(m1, last.c) :
          /\ Len(From(m1, q)) >= 2
          /\ \A i \in DOMAIN From(m1, q) : From(m1, q)[i].v \notin {Zero, One}

----------------------------------------------------------------------------
(* Composition.  Each operand is built from the empty automaton by at most *)
(* MaxComposeOps public calls.                                             *)

LeftTrans == {Transition(0, <<"a", "b">>, 1),
              Transition(0, <<"a", "c">>, 1),
              Transition(0, <<"a", EPSILON>>, 1)}
RightTrans == {Transition(0, <<"b", "d">>, 1),
               Transition(0, <<"c", "d">>, 1),
               Transition(0, <<"b", EPSILON>>, 0),
               Transition(0, <<EPSILON, "d">>, 1)}

ComposeOps(T) ==
    {[op |-> "add_transition", t |-> t, wt |-> Int2Rat(w)] : t \in T, w \in 1..2}
    \cup {[op |-> "reweight_transition", t |-> t, wt |-> One] : t \in T}
    \cup {[op |-> "set_start", t |-> NoTransition, wt |-> Zero],
          [op |-> "set_accept", t |-> NoTransition, wt |-> Zero]}

\* a sequence of public calls (set_start(0) and set_accept(1) for the two
\* calls that take a state)
RECURSIVE Build(_, _)
Build(f, ops) ==
    IF ops = <<>> THEN f
    ELSE LET o == Head(ops)
         IN Build(CASE o.op = "add_transition" -> add_transition(f, o.t, o.wt)
                    [] o.op = "reweight_transition" -> reweight_transition(f, o.t, o.wt)
                    [] o.op = "set_start" -> set_start(f, 0)
                    [] o.op = "set_accept" -> set_accept(f, 1),
                  Tail(ops))

InitCompose ==
    /\ \E ops \in SeqsUpTo(ComposeOps(LeftTrans), MaxComposeOps) :
          m1 = Build(FST, ops)
    /\ \E ops \in SeqsUpTo(ComposeOps(RightTrans), MaxComposeOps) :
          m2 = Build(FST, ops)
    /\ last = NoCall
    /\ out = [left |-> NoResult, right |-> NoResult]
    /\ nEst = 0

ComposeLeft ==
    /\ ~out.left.called
    /\ out' = [out EXCEPT !.left = compose_left(m1, m2)]
    /\ last' = [NoCall EXCEPT !.op = "compose_left"]
    /\ UNCHANGED <<m1, m2, nEst>>

ComposeRight ==
    /\ ~out.right.called
    /\ out' = [out EXCEPT !.right = compose_right(m1, m2)]
    /\ last' = [NoCall EXCEPT !.op = "compose_right"]
    /\ UNCHANGED <<m1, m2, nEst>>

NextCompose == ComposeLeft \/ ComposeRight

SpecCompose == InitCompose /\ [][NextCompose]_vars

Deletes(f) == \E t \in AllKeys(f) : t.a[2] = EPSILON
Inserts(f) == \E t \in AllKeys(f) : t.a[1] = EPSILON

\* C3: either composition raises the error exactly when m1 has a transition
\* with output EPSILON and m2 has a transition with input EPSILON, and then
\* returns no automaton.
C3_AmbiguousCompositionRejected ==
    \A r \in {out.left, out.right} :
       r.called => ((r.err = "ValueError") <=> (Deletes(m1) /\ Inserts(m2)))

\* the transitions of an automaton with their weights, whatever their order
WeightMap(d) == {<<d[i].k, d[i].v>> : i \in DOMAIN d}

\* C4: compose_left and compose_right have the same outcome: both raise, or
\* both return automata with the same states, start, accept, transitions,
\* weights and alphabets.
C4_ComposeVariantsAgree ==
    (out.left.called /\ out.right.called) =>
        /\ out.left.err = out.right.err
        /\ out.left.m.states = out.right.m.states
        /\ out.left.m.start = out.right.m.start
        /\ out.left.m.accept = out.right.m.accept
        /\ out.left.m.input_alphabet = out.right.m.input_alphabet
        /\ out.left.m.output_alphabet = out.right.m.output_alphabet
        /\ \A i \in 1..4 :
              WeightMap(WeightsOf(out.left.m)[i]) = WeightMap(WeightsOf(out.right.m)[i])

\* the value the multiplicative evaluator derives from a provenance entry:
\* the weight of t1 in m1 (1 if absent) times the weight of t2 in m2
ProvenanceValue(p) ==
    RMul(IF p[1] = NoTransition THEN One ELSE GetFloat(m1.transitions_from, p[1]),
         IF p[2] = NoTransition THEN One ELSE GetFloat(m2.transitions_from, p[2]))

\* C5: the weight of every composed transition equals the value derived from
\* the provenance recorded on it.
C5_WeightMatchesProvenance ==
    \A r \in {out.left, out.right} :
       (r.called /\ r.err = "") =>
          \A i \in DOMAIN r.m.transitions_from :
             LET e == r.m.transitions_from[i]
             IN e.v = ProvenanceValue(Get(r.composed_from, e.k))

====
